---- MODULE Spec2Model ----
(***************************************************************************)
(* Request-instrumentation pipeline of otel-tutorial-rust:                 *)
(*   - normalize_endpoint   (src/src/custom_middleware.rs)                 *)
(*   - RequestIdMiddlewareService::call (src/src/custom_middleware.rs)     *)
(*   - the Prometheus registry hooks and /metrics (src/src/metrics.rs)     *)
(* Text is modelled as sequences of one-character strings, so that         *)
(* splitting, parsing and joining are computed character by character.     *)
(***************************************************************************)
EXTENDS Integers, Sequences, FiniteSets, TLC

\* ------------------------------------------------------------------------
\* Bounds of the model
\* ------------------------------------------------------------------------
\* number of requests the server receives in one behaviour
NumRequests == 2
\* number of text pieces concatenated into one normalizer input
MaxPieces == 3
\* number of latency observations made on one histogram series
MaxObservations == 3

\* ------------------------------------------------------------------------
\* Text literals
\* ------------------------------------------------------------------------
IdPlaceholder == <<"{", "i", "d", "}">>
UuidHyphenated == <<"5", "5", "0", "e", "8", "4", "0", "0", "-", "e", "2", "9", "b", "-", "4", "1", "d", "4", "-", "a", "7", "1", "6", "-", "4", "4", "6", "6", "5", "5", "4", "4", "0", "0", "0", "0">>
UuidSimple == <<"5", "5", "0", "E", "8", "4", "0", "0", "e", "2", "9", "b", "4", "1", "d", "4", "a", "7", "1", "6", "4", "4", "6", "6", "5", "5", "4", "4", "0", "0", "0", "0">>
UuidBadHex == <<"5", "5", "0", "g", "8", "4", "0", "0", "-", "e", "2", "9", "b", "-", "4", "1", "d", "4", "-", "a", "7", "1", "6", "-", "4", "4", "6", "6", "5", "5", "4", "4", "0", "0", "0", "0">>
UrnPrefix == <<"u", "r", "n", ":", "u", "u", "i", "d", ":">>
UuidBraced == <<"{">> \o UuidHyphenated \o <<"}">>
UuidUrn == UrnPrefix \o UuidHyphenated
\* u64::MAX and u64::MAX + 1 in decimal
U64MaxDigits == <<"1", "8", "4", "4", "6", "7", "4", "4", "0", "7", "3", "7", "0", "9", "5", "5", "1", "6", "1", "5">>
U64Overflow == <<"1", "8", "4", "4", "6", "7", "4", "4", "0", "7", "3", "7", "0", "9", "5", "5", "1", "6", "1", "6">>

PathUsers123 == <<"/", "a", "p", "i", "/", "u", "s", "e", "r", "s", "/", "1", "2", "3">>
PathUsers42 == <<"/", "a", "p", "i", "/", "u", "s", "e", "r", "s", "/", "4", "2">>
PathUsersBig == <<"/", "a", "p", "i", "/", "u", "s", "e", "r", "s", "/">> \o U64Overflow
PathMetrics == <<"/", "m", "e", "t", "r", "i", "c", "s">>
LabelUsersId == <<"/", "a", "p", "i", "/", "u", "s", "e", "r", "s", "/", "{", "i", "d", "}">>

Digits == {"0", "1", "2", "3", "4", "5", "6", "7", "8", "9"}
HexDigits == Digits \cup {"a", "b", "c", "d", "e", "f", "A", "B", "C", "D", "E", "F"}
DigitVal == [c \in Digits |-> CASE c = "0" -> 0 [] c = "1" -> 1 [] c = "2" -> 2
                                [] c = "3" -> 3 [] c = "4" -> 4 [] c = "5" -> 5
                                [] c = "6" -> 6 [] c = "7" -> 7 [] c = "8" -> 8
                                [] OTHER -> 9]

\* ------------------------------------------------------------------------
\* str::split('/') : every segment between separators, empty ones included
\* ------------------------------------------------------------------------
\* the k-th smallest member of a set of positions
nth_position(S, k) == CHOOSE i \in S : Cardinality({ j \in S : j < i }) = k - 1

split(s) ==
    LET seps == { i \in 1..Len(s) : s[i] = "/" }
        n == Cardinality(seps)
        start(k) == IF k = 1 THEN 1 ELSE nth_position(seps, k - 1) + 1
        stop(k) == IF k = n + 1 THEN Len(s) ELSE nth_position(seps, k) - 1
    IN  [k \in 1..(n + 1) |-> SubSeq(s, start(k), stop(k))]

\* ------------------------------------------------------------------------
\* segment.parse::<u64>() : optional leading '+', then one or more ASCII
\* digits, the value accumulated digit by digit with an overflow check.
\* The accumulator is kept as its decimal digits without leading zeros, so
\* the 64-bit limit is compared exactly.
\* ------------------------------------------------------------------------
digits_leq(a, b) ==
    \/ a = b
    \/ \E i \in 1..Len(a) : /\ DigitVal[a[i]] < DigitVal[b[i]]
                            /\ \A j \in 1..(i - 1) : a[j] = b[j]

fits_u64(acc) ==
    \/ Len(acc) < Len(U64MaxDigits)
    \/ Len(acc) = Len(U64MaxDigits) /\ digits_leq(acc, U64MaxDigits)

\* result of the digit loop: "ok", "invalid_digit" or "overflow"
RECURSIVE parse_digits(_, _, _)
parse_digits(s, i, acc) ==
    IF i > Len(s) THEN "ok"
    ELSE IF s[i] \notin Digits THEN "invalid_digit"
    ELSE LET next == IF acc = <<>> /\ s[i] = "0" THEN <<>> ELSE Append(acc, s[i])
         IN  IF fits_u64(next) THEN parse_digits(s, i + 1, next) ELSE "overflow"

parse_u64_is_ok(s) ==
    LET digits == IF Len(s) > 0 /\ s[1] = "+" THEN Tail(s) ELSE s
    IN  /\ Len(digits) > 0
        /\ parse_digits(digits, 1, <<>>) = "ok"

\* ------------------------------------------------------------------------
\* Uuid::parse_str : 32 hex digits, or the hyphenated 8-4-4-4-12 form,
\* bare, wrapped in braces, or after the prefix urn:uuid:
\* ------------------------------------------------------------------------
parse_simple_is_ok(s) == \A i \in 1..Len(s) : s[i] \in HexDigits

parse_hyphenated_is_ok(s) ==
    /\ Len(s) = 36
    /\ s[9] = "-" /\ s[14] = "-" /\ s[19] = "-" /\ s[24] = "-"
    /\ \A i \in (1..36) \ {9, 14, 19, 24} : s[i] \in HexDigits

uuid_parse_str_is_ok(s) ==
    CASE Len(s) = 32 -> parse_simple_is_ok(s)
      [] Len(s) = 36 -> parse_hyphenated_is_ok(s)
      [] Len(s) = 38 /\ s[1] = "{" /\ s[38] = "}" ->
             parse_hyphenated_is_ok(SubSeq(s, 2, 37))
      [] Len(s) = 45 /\ SubSeq(s, 1, 9) = UrnPrefix ->
             parse_hyphenated_is_ok(SubSeq(s, 10, 45))
      [] OTHER -> FALSE

\* ------------------------------------------------------------------------
\* normalize_endpoint
\* ------------------------------------------------------------------------
\* parts.join("/")
RECURSIVE join(_, _)
join(parts, i) ==
    IF i > Len(parts) THEN <<>>
    ELSE IF i = Len(parts) THEN parts[i]
    ELSE parts[i] \o <<"/">> \o join(parts, i + 1)

\* variant: only the integer test, the UUID test forgotten
RECURSIVE collect_parts_u64_only(_, _, _)
collect_parts_u64_only(segs, i, parts) ==
    IF i > Len(segs) THEN parts
    ELSE IF segs[i] = <<>> THEN collect_parts_u64_only(segs, i + 1, parts)
    ELSE IF parse_u64_is_ok(segs[i])
         THEN collect_parts_u64_only(segs, i + 1, Append(parts, IdPlaceholder))
    ELSE collect_parts_u64_only(segs, i + 1, Append(parts, segs[i]))

\* variant: empty segments are not skipped
RECURSIVE collect_parts_keep_empty(_, _, _)
collect_parts_keep_empty(segs, i, parts) ==
    IF i > Len(segs) THEN parts
    ELSE IF parse_u64_is_ok(segs[i]) \/ uuid_parse_str_is_ok(segs[i])
         THEN collect_parts_keep_empty(segs, i + 1, Append(parts, IdPlaceholder))
    ELSE collect_parts_keep_empty(segs, i + 1, Append(parts, segs[i]))

\* variant: only the first identifier of a path is replaced
RECURSIVE collect_parts_first_id(_, _, _)
collect_parts_first_id(segs, i, parts) ==
    IF i > Len(segs) THEN parts
    ELSE IF segs[i] = <<>> THEN collect_parts_first_id(segs, i + 1, parts)
    ELSE IF /\ parse_u64_is_ok(segs[i]) \/ uuid_parse_str_is_ok(segs[i])
            /\ \A j \in 1..(i - 1) :
                  ~(parse_u64_is_ok(segs[j]) \/ uuid_parse_str_is_ok(segs[j]))
         THEN collect_parts_first_id(segs, i + 1, Append(parts, IdPlaceholder))
    ELSE collect_parts_first_id(segs, i + 1, Append(parts, segs[i]))

\* the loop over path.split('/')
RECURSIVE collect_parts(_, _, _)
collect_parts(segs, i, parts) ==
    IF i > Len(segs) THEN parts
    ELSE IF segs[i] = <<>> THEN collect_parts(segs, i + 1, parts)
    ELSE IF parse_u64_is_ok(segs[i]) \/ uuid_parse_str_is_ok(segs[i])
         THEN collect_parts(segs, i + 1, Append(parts, IdPlaceholder))
    ELSE collect_parts(segs, i + 1, Append(parts, segs[i]))

\* variant: the joined parts without the leading "/"
normalize_endpoint_unrooted(path) ==
    LET parts == collect_parts(split(path), 1, <<>>)
    IN  IF parts = <<>> THEN <<"/">> ELSE join(parts, 1)

\* variant: the raw path used as the label
normalize_endpoint_raw(path) == path

normalize_endpoint(path) ==
    LET parts == collect_parts(split(path), 1, <<>>)
    IN  IF parts = <<>> THEN <<"/">> ELSE <<"/">> \o join(parts, 1)

\* ------------------------------------------------------------------------
\* Inputs of the normalizer: concatenations of at most MaxPieces pieces
\* ------------------------------------------------------------------------
Pieces == { <<"/">>, <<"a">>, <<"1">>, <<"0">>, <<"+">>, IdPlaceholder,
            UuidHyphenated, UuidSimple, UuidBadHex, UuidBraced, UuidUrn,
            U64MaxDigits, U64Overflow }

RECURSIVE concat(_, _)
concat(ps, i) == IF i > Len(ps) THEN <<>> ELSE ps[i] \o concat(ps, i + 1)

NormInputs == { concat(ps, 1) : ps \in UNION { [1..n -> Pieces] : n \in 0..MaxPieces } }

\* ------------------------------------------------------------------------
\* Requests, downstream outcomes and the Prometheus registry
\* ------------------------------------------------------------------------
Reqs == 1..NumRequests

\* (method, raw path) of the requests a client may send
RequestInputs ==
    { [method |-> "GET",  path |-> PathUsers123],
      [method |-> "GET",  path |-> PathUsers42],
      [method |-> "POST", path |-> PathUsersBig],
      [method |-> "GET",  path |-> PathMetrics] }

\* status codes an application handler may answer with
HandlerStatuses == {200}
\* errors an application handler may return instead of a response
HandlerErrors == {"E1"}
\* StatusCode::INTERNAL_SERVER_ERROR
INTERNAL_SERVER_ERROR == 500
\* start_time.elapsed(), in microseconds
ElapsedMicros == {30000}
\* histogram bucket bounds of http_request_duration_seconds, in microseconds
BucketBounds == <<5000, 10000, 25000, 50000, 100000, 250000, 500000, 1000000, 2500000, 5000000>>
InfBucket == Len(BucketBounds) + 1
\* durations handed to observe, in microseconds: below, on and above bounds
LatencyInputs == {0, 4999, 5000, 5001, 10000, 30000, 1000000, 5000000, 5000001, 7000000}

NoCtx == [request_id |-> 0, method |-> "", path |-> <<>>, endpoint |-> <<>>]
NoResult == [kind |-> "none"]

\* u16::to_string : decimal digits, most significant first
DigitChar == <<"0", "1", "2", "3", "4", "5", "6", "7", "8", "9">>
RECURSIVE u16_to_string(_)
u16_to_string(n) ==
    IF n < 10 THEN <<DigitChar[n + 1]>>
    ELSE Append(u16_to_string(n \div 10), DigitChar[(n % 10) + 1])

\* variant: a vector that keeps only the series created last
add_to_series_fresh(vec, key, delta) ==
    IF key \in DOMAIN vec THEN [vec EXCEPT ![key] = @ + delta]
    ELSE (key :> delta)

\* MetricVec::with_label_values(key) followed by an atomic add of delta:
\* the series is created at zero when absent
add_to_series(vec, key, delta) ==
    IF key \in DOMAIN vec THEN [vec EXCEPT ![key] = @ + delta]
    ELSE vec @@ (key :> delta)

\* variant: a value equal to a bound goes to the next bucket
bucket_of_strict(v) ==
    IF \E i \in 1..Len(BucketBounds) : v < BucketBounds[i]
    THEN CHOOSE i \in 1..Len(BucketBounds) :
             /\ v < BucketBounds[i]
             /\ \A j \in 1..(i - 1) : v >= BucketBounds[j]
    ELSE InfBucket

\* Histogram::observe : the bucket with the smallest bound >= v, or +Inf
bucket_of(v) ==
    IF \E i \in 1..Len(BucketBounds) : v <= BucketBounds[i]
    THEN CHOOSE i \in 1..Len(BucketBounds) :
             /\ v <= BucketBounds[i]
             /\ \A j \in 1..(i - 1) : v > BucketBounds[j]
    ELSE InfBucket

EmptyHistogram == [count |-> 0, sum |-> 0, buckets |-> [i \in 1..InfBucket |-> 0]]

observe(vec, key, v) ==
    LET h == IF key \in DOMAIN vec THEN vec[key] ELSE EmptyHistogram
        h2 == [count |-> h.count + 1, sum |-> h.sum + v,
               buckets |-> [h.buckets EXCEPT ![bucket_of(v)] = @ + 1]]
    IN  IF key \in DOMAIN vec THEN [vec EXCEPT ![key] = h2] ELSE vec @@ (key :> h2)

\* variant: the gauge is set to 1 instead of being incremented
track_request_start_set(g, method, endpoint) ==
    IF <<method, endpoint>> \in DOMAIN g THEN [g EXCEPT ![<<method, endpoint>>] = 1]
    ELSE g @@ (<<method, endpoint>> :> 1)

\* metrics::track_request_start
track_request_start(g, method, endpoint) ==
    add_to_series(g, <<method, endpoint>>, 1)

\* variant: .inc() where .dec() is meant
track_request_result_gauge_inc(g, method, endpoint) ==
    add_to_series(g, <<method, endpoint>>, 1)

\* variant: the status label of a success whatever the outcome
track_request_result_counter_ok(c, method, endpoint, status) ==
    add_to_series(c, <<method, endpoint, u16_to_string(200)>>, 1)

\* metrics::track_request_result, its three registry updates in source order
track_request_result_gauge(g, method, endpoint) ==
    add_to_series(g, <<method, endpoint>>, -1)

track_request_result_counter(c, method, endpoint, status) ==
    add_to_series(c, <<method, endpoint, u16_to_string(status)>>, 1)

track_request_result_histogram(h, method, endpoint, status, duration) ==
    observe(h, <<method, endpoint, u16_to_string(status)>>, duration)

\* status recorded for a handler result: the response's status, or the
\* synthesized 500 of the Err branch
status_of(res) ==
    IF res.kind = "ok" THEN res.status ELSE INTERNAL_SERVER_ERROR

\* variant: the error answered as a 500 response instead of being returned
returned_result_swallowed(res) ==
    IF res.kind = "err"
    THEN [kind |-> "ok", status |-> INTERNAL_SERVER_ERROR, body |-> "app"]
    ELSE res

\* what the middleware's future resolves to: Ok(res) or Err(err)
returned_result(res) == res

\* variant: both branches of the match end as a completion
terminal_of_always_completed(res) == "completed"

\* the branch of `match result` the future finishes in
terminal_of(res) ==
    IF res.kind = "ok" THEN "completed" ELSE "failed"

\* variant: the Err branch logs like the Ok branch
terminal_event_always_info(res) ==
    [level |-> "INFO", msg |-> "Request completed", in_span |-> TRUE]

\* the log event of the branch: info! in Ok, warn! in Err, both emitted
\* by the instrumented future
terminal_event(res) ==
    IF res.kind = "ok"
    THEN [level |-> "INFO", msg |-> "Request completed", in_span |-> TRUE]
    ELSE [level |-> "WARN", msg |-> "Request failed", in_span |-> TRUE]

VARIABLES
    pc,        \* per request: position in RequestIdMiddlewareService::call
    ctx,       \* per request: request_id, method, path, endpoint
    result,    \* per request: what service.call(req).await produced
    elapsed,   \* per request: start_time.elapsed() at handler return
    ret,       \* per request: what the middleware returned to its caller
    gauge,     \* HTTP_REQUESTS_IN_FLIGHT : (method, endpoint) -> value
    counter,   \* HTTP_REQUESTS_TOTAL : (method, endpoint, status) -> value
    histogram, \* HTTP_REQUEST_DURATION_SECONDS : (method, endpoint, status) -> series
    muts,      \* per request: registry updates made on its behalf, in order
    events,    \* per request: log events emitted, in order
    n_pc,      \* "input" | "once" | "twice" : position of the normalizer run
    n_path,    \* the raw path given to normalize_endpoint
    n_label,   \* normalize_endpoint(n_path)
    n_again,   \* normalize_endpoint(n_label)
    h_vec,     \* a HistogramVec observed on its own
    h_value,   \* the duration of the last observation
    h_count    \* number of observations made so far

nvars == <<n_pc, n_path, n_label, n_again>>
hvars == <<h_vec, h_value, h_count>>
registry == <<gauge, counter, histogram>>
rvars == <<pc, ctx, result, elapsed, ret, gauge, counter, histogram, muts, events>>
vars == <<pc, ctx, result, elapsed, ret, gauge, counter, histogram, muts, events,
          n_pc, n_path, n_label, n_again, h_vec, h_value, h_count>>

\* ------------------------------------------------------------------------
\* History of registry updates: what one step changed in one metric vector
\* ------------------------------------------------------------------------
int_changes(old, new) ==
    { [key |-> k, delta |-> new[k] - (IF k \in DOMAIN old THEN old[k] ELSE 0)] :
        k \in { x \in DOMAIN new : x \notin DOMAIN old \/ new[x] # old[x] } }

histogram_changes(old, new) ==
    { [key |-> k,
       delta |-> new[k].count - (IF k \in DOMAIN old THEN old[k].count ELSE 0),
       sum |-> new[k].sum - (IF k \in DOMAIN old THEN old[k].sum ELSE 0)] :
        k \in { x \in DOMAIN new : x \notin DOMAIN old \/ new[x] # old[x] } }

Sum(f) ==
    LET RECURSIVE sum_over(_)
        sum_over(S) == IF S = {} THEN 0
                       ELSE LET k == CHOOSE x \in S : TRUE
                            IN  f[k] + sum_over(S \ {k})
    IN  sum_over(DOMAIN f)

\* ------------------------------------------------------------------------
\* Initial states
\* ------------------------------------------------------------------------
NormIdle == n_pc = "input" /\ n_path = <<>> /\ n_label = <<>> /\ n_again = <<>>

MainIdle ==
    /\ pc = [r \in Reqs |-> "idle"]
    /\ ctx = [r \in Reqs |-> NoCtx]
    /\ result = [r \in Reqs |-> NoResult]
    /\ elapsed = [r \in Reqs |-> 0]
    /\ ret = [r \in Reqs |-> NoResult]
    /\ gauge = <<>>
    /\ counter = <<>>
    /\ histogram = <<>>
    /\ muts = [r \in Reqs |-> <<>>]
    /\ events = [r \in Reqs |-> <<>>]

HistIdle == h_vec = <<>> /\ h_value = 0 /\ h_count = 0

Init == MainIdle /\ NormIdle /\ HistIdle

InitNorm ==
    /\ MainIdle
    /\ n_pc = "input"
    /\ n_path \in NormInputs
    /\ n_label = <<>>
    /\ n_again = <<>>
    /\ HistIdle

\* ------------------------------------------------------------------------
\* RequestIdMiddlewareService::call, up to the creation of the future
\* ------------------------------------------------------------------------
call(r) ==
    /\ pc[r] = "idle"
    /\ \A q \in 1..(r - 1) : pc[q] # "idle"
    /\ \E inp \in RequestInputs :
         LET endpoint == normalize_endpoint(inp.path)
             gauge2 == track_request_start(gauge, inp.method, endpoint)
         IN  /\ ctx' = [ctx EXCEPT ![r] = [request_id |-> r, method |-> inp.method,
                                            path |-> inp.path, endpoint |-> endpoint]]
             /\ events' = [events EXCEPT ![r] =
                    Append(@, [level |-> "INFO", msg |-> "Request started", in_span |-> FALSE])]
             /\ gauge' = gauge2
             /\ muts' = [muts EXCEPT ![r] =
                    Append(@, [metric |-> "gauge", changes |-> int_changes(gauge, gauge2)])]
    /\ pc' = [pc EXCEPT ![r] = "created"]
    /\ UNCHANGED <<result, elapsed, ret, counter, histogram, nvars, hvars>>

\* first poll of the returned future: service.call(req) is invoked
poll(r) ==
    /\ pc[r] = "created"
    /\ pc' = [pc EXCEPT ![r] = "in_flight"]
    /\ UNCHANGED <<ctx, result, elapsed, ret, registry, muts, events, nvars, hvars>>

\* the future is dropped at its only suspension point (or before it is
\* polled): the code after the .await never runs
drop_future(r) ==
    /\ pc[r] \in {"created", "in_flight"}
    /\ pc' = [pc EXCEPT ![r] = "dropped"]
    /\ UNCHANGED <<ctx, result, elapsed, ret, registry, muts, events, nvars, hvars>>

is_scrape(r) == ctx[r].method = "GET" /\ ctx[r].path = PathMetrics

\* service.call(req).await resolves for a route of the application
handler_return(r) ==
    /\ pc[r] = "in_flight"
    /\ ~is_scrape(r)
    /\ \E res \in { [kind |-> "ok", status |-> st, body |-> "app"] : st \in HandlerStatuses }
                  \cup { [kind |-> "err", err |-> e] : e \in HandlerErrors } :
         result' = [result EXCEPT ![r] = res]
    /\ \E d \in ElapsedMicros : elapsed' = [elapsed EXCEPT ![r] = d]
    /\ pc' = [pc EXCEPT ![r] = "track_gauge"]
    /\ UNCHANGED <<ctx, ret, registry, muts, events, nvars, hvars>>

\* prometheus::gather(), as the totals of the three metric families
gather ==
    [in_flight |-> Sum(gauge), requests |-> Sum(counter),
     observations |-> Sum([k \in DOMAIN histogram |-> histogram[k].count])]

\* encoder.format_type()
TEXT_FORMAT == "text/plain; version=0.0.4"

\* the exposition text of a snapshot, one entry per metric family
encoded_families(mf) ==
    << [family |-> "http_request_duration_seconds", total |-> mf.observations],
       [family |-> "http_requests_in_flight", total |-> mf.in_flight],
       [family |-> "http_requests_total", total |-> mf.requests] >>

\* encoder.encode(&metric_families, &mut buffer): the families are written
\* to the buffer in order; a failure at family fail_at (0: none) returns Err
\* and leaves the families before it in the buffer
encode(mf, fail_at) ==
    IF fail_at = 0
    THEN [ok |-> TRUE, buffer |-> encoded_families(mf)]
    ELSE [ok |-> FALSE, buffer |-> SubSeq(encoded_families(mf), 1, fail_at - 1),
          err |-> <<"encode error at family", fail_at>>]

\* variant: the result of encode is ignored and the buffer always served
metrics_response_unchecked(enc) ==
    [kind |-> "ok", status |-> 200, content_type |-> TEXT_FORMAT, body |-> enc.buffer]

\* the response metrics_handler builds from the result of encode
metrics_response(enc) ==
    IF ~enc.ok
    THEN [kind |-> "ok", status |-> INTERNAL_SERVER_ERROR,
          content_type |-> "text/plain; charset=utf-8",
          body |-> <<"failed to encode metrics: ", enc.err>>]
    ELSE [kind |-> "ok", status |-> 200, content_type |-> TEXT_FORMAT, body |-> enc.buffer]

\* variant: the handler counts itself as in flight while it renders
metrics_handler_counting(r) ==
    /\ pc[r] = "in_flight"
    /\ is_scrape(r)
    /\ result' = [result EXCEPT ![r] = metrics_response(encode(gather, 0))]
    /\ \E d \in ElapsedMicros : elapsed' = [elapsed EXCEPT ![r] = d]
    /\ gauge' = track_request_start(gauge, ctx[r].method, ctx[r].endpoint)
    /\ pc' = [pc EXCEPT ![r] = "track_gauge"]
    /\ UNCHANGED <<ctx, ret, counter, histogram, muts, events, nvars, hvars>>

\* metrics::metrics_handler serving GET /metrics
metrics_handler(r) ==
    /\ pc[r] = "in_flight"
    /\ is_scrape(r)
    /\ \E fail_at \in 0..3 :
         result' = [result EXCEPT ![r] = metrics_response(encode(gather, fail_at))]
    /\ \E d \in ElapsedMicros : elapsed' = [elapsed EXCEPT ![r] = d]
    /\ pc' = [pc EXCEPT ![r] = "track_gauge"]
    /\ UNCHANGED <<ctx, ret, registry, muts, events, nvars, hvars>>

\* track_request_result: HTTP_REQUESTS_IN_FLIGHT ... .dec()
track_gauge(r) ==
    /\ pc[r] = "track_gauge"
    /\ LET gauge2 == track_request_result_gauge(gauge, ctx[r].method, ctx[r].endpoint)
       IN  /\ gauge' = gauge2
           /\ muts' = [muts EXCEPT ![r] =
                  Append(@, [metric |-> "gauge", changes |-> int_changes(gauge, gauge2)])]
    /\ pc' = [pc EXCEPT ![r] = "track_counter"]
    /\ UNCHANGED <<ctx, result, elapsed, ret, counter, histogram, events, nvars, hvars>>

\* track_request_result: HTTP_REQUESTS_TOTAL ... .inc()
track_counter(r) ==
    /\ pc[r] = "track_counter"
    /\ LET counter2 == track_request_result_counter(counter, ctx[r].method,
                           ctx[r].endpoint, status_of(result[r]))
       IN  /\ counter' = counter2
           /\ muts' = [muts EXCEPT ![r] =
                  Append(@, [metric |-> "counter", changes |-> int_changes(counter, counter2)])]
    /\ pc' = [pc EXCEPT ![r] = "track_histogram"]
    /\ UNCHANGED <<ctx, result, elapsed, ret, gauge, histogram, events, nvars, hvars>>

\* track_request_result: HTTP_REQUEST_DURATION_SECONDS ... .observe(), then
\* the log event of the branch and the value the future resolves to
track_histogram(r) ==
    /\ pc[r] = "track_histogram"
    /\ LET histogram2 == track_request_result_histogram(histogram, ctx[r].method,
                             ctx[r].endpoint, status_of(result[r]), elapsed[r])
       IN  /\ histogram' = histogram2
           /\ muts' = [muts EXCEPT ![r] =
                  Append(@, [metric |-> "histogram",
                             changes |-> histogram_changes(histogram, histogram2)])]
    /\ events' = [events EXCEPT ![r] = Append(@, terminal_event(result[r]))]
    /\ ret' = [ret EXCEPT ![r] = returned_result(result[r])]
    /\ pc' = [pc EXCEPT ![r] = terminal_of(result[r])]
    /\ UNCHANGED <<ctx, result, elapsed, gauge, counter, nvars, hvars>>

Next ==
    \E r \in Reqs :
        \/ call(r)
        \/ poll(r)
        \/ drop_future(r)
        \/ handler_return(r)
        \/ metrics_handler(r)
        \/ track_gauge(r)
        \/ track_counter(r)
        \/ track_histogram(r)

Spec == Init /\ [][Next]_vars

\* The code after service.call(req).await has no suspension point: once the
\* handler has returned, the three updates, the log event and the return run
\* to the end within the same poll.
FairSpec ==
    /\ Spec
    /\ \A r \in Reqs : /\ WF_vars(track_gauge(r))
                       /\ WF_vars(track_counter(r))
                       /\ WF_vars(track_histogram(r))

\* ------------------------------------------------------------------------
\* The normalizer applied to arbitrary text
\* ------------------------------------------------------------------------
NormCall ==
    /\ n_pc = "input"
    /\ n_label' = normalize_endpoint(n_path)
    /\ n_pc' = "once"
    /\ UNCHANGED <<n_path, n_again, rvars, hvars>>

NormAgain ==
    /\ n_pc = "once"
    /\ n_again' = normalize_endpoint(n_label)
    /\ n_pc' = "twice"
    /\ UNCHANGED <<n_path, n_label, rvars, hvars>>

NextNorm == NormCall \/ NormAgain

SpecNorm == InitNorm /\ [][NextNorm]_vars

\* ------------------------------------------------------------------------
\* The duration histogram observed with arbitrary durations
\* ------------------------------------------------------------------------
\* track_request_result's .observe(duration.as_secs_f64()) on the series
\* (GET, /api/users/{id}, 200)
observe_duration(v) ==
    /\ h_count < MaxObservations
    /\ h_vec' = track_request_result_histogram(h_vec, "GET", LabelUsersId, 200, v)
    /\ h_value' = v
    /\ h_count' = h_count + 1
    /\ UNCHANGED <<rvars, nvars>>

NextHist == \E v \in LatencyInputs : observe_duration(v)

SpecHist == Init /\ [][NextHist]_vars

\* ------------------------------------------------------------------------
\* Vocabulary of the properties of normalize_endpoint
\* ------------------------------------------------------------------------
NonEmpty(seg) == seg # <<>>
Segments(s) == SelectSeq(split(s), NonEmpty)

AllIn(s, S) == \A i \in 1..Len(s) : s[i] \in S

\* decimal text of a value of at most 2^64 - 1, leading zeros allowed
DecimalFitsU64(d) ==
    /\ Len(d) > 0
    /\ AllIn(d, Digits)
    /\ LET lead == IF \E i \in 1..Len(d) : d[i] # "0"
                   THEN (CHOOSE i \in 1..Len(d) : d[i] # "0" /\ \A j \in 1..(i - 1) : d[j] = "0") - 1
                   ELSE Len(d)
           sig == SubSeq(d, lead + 1, Len(d))
       IN  \/ Len(sig) < 20
           \/ /\ Len(sig) = 20
              /\ \/ sig = U64MaxDigits
                 \/ \E i \in 1..20 : /\ DigitVal[sig[i]] < DigitVal[U64MaxDigits[i]]
                                     /\ \A j \in 1..(i - 1) : sig[j] = U64MaxDigits[j]

\* text that str::parse::<u64> accepts
IsU64Text(seg) ==
    \/ DecimalFitsU64(seg)
    \/ Len(seg) > 1 /\ seg[1] = "+" /\ DecimalFitsU64(Tail(seg))

\* the canonical 8-4-4-4-12 form
IsCanonicalUuid(seg) ==
    /\ Len(seg) = 36
    /\ \A i \in 1..36 : IF i \in {9, 14, 19, 24} THEN seg[i] = "-" ELSE seg[i] \in HexDigits

\* every textual form Uuid::parse_str accepts
IsUuidText(seg) ==
    \/ IsCanonicalUuid(seg)
    \/ Len(seg) = 32 /\ AllIn(seg, HexDigits)
    \/ \E i \in {1} : Len(seg) = 38 /\ seg[i] = "{" /\ seg[38] = "}" /\ IsCanonicalUuid(SubSeq(seg, 2, 37))
    \/ Len(seg) = 45 /\ SubSeq(seg, 1, 9) = UrnPrefix /\ IsCanonicalUuid(SubSeq(seg, 10, 45))

\* the path with runs of slashes collapsed and the trailing slash removed
Collapsed(s) ==
    LET kept == { i \in 1..Len(s) : ~(s[i] = "/" /\ i > 1 /\ s[i - 1] = "/") }
        c == [k \in 1..Cardinality(kept) |-> s[nth_position(kept, k)]]
    IN  IF Len(c) > 0 /\ c[Len(c)] = "/" THEN SubSeq(c, 1, Len(c) - 1) ELSE c

\* a URL path: empty, or starting at the root
IsUrlPath(s) == s = <<>> \/ s[1] = "/"

\* C6 as stated: a segment becomes {id} exactly when it parses as an
\* unsigned integer or has the canonical 8-4-4-4-12 UUID form; every other
\* non-empty segment is kept verbatim, in order.
C6_AsStated ==
    n_pc # "input" =>
        LET in == Segments(n_path)
            out == Segments(n_label)
        IN  /\ Len(out) = Len(in)
            /\ \A k \in 1..Len(in) :
                 out[k] = IF IsU64Text(in[k]) \/ IsCanonicalUuid(in[k])
                          THEN IdPlaceholder ELSE in[k]

\* C6 amended: a segment becomes {id} exactly when str::parse::<u64> accepts
\* it (optional '+', decimal digits, value at most 2^64 - 1) or
\* Uuid::parse_str accepts it (the 8-4-4-4-12 form, 32 hex digits without
\* hyphens, the braced form, the urn:uuid: form); every other non-empty
\* segment is kept verbatim and the order of segments is preserved.
C6_ReplacedIffParses ==
    n_pc # "input" =>
        LET in == Segments(n_path)
            out == Segments(n_label)
        IN  /\ Len(out) = Len(in)
            /\ \A k \in 1..Len(in) :
                 out[k] = IF IsU64Text(in[k]) \/ IsUuidText(in[k])
                          THEN IdPlaceholder ELSE in[k]

C6_Witness ==
    /\ n_pc = "once"
    /\ Len(Segments(n_path)) = 2
    /\ Segments(n_label)[1] = IdPlaceholder
    /\ Segments(n_path)[1] # IdPlaceholder
    /\ Segments(n_label)[2] = Segments(n_path)[2]

C8_LabelWellFormed ==
    n_pc # "input" =>
        /\ Len(n_label) >= 1
        /\ n_label[1] = "/"
        /\ \/ n_label = <<"/">>
           \/ /\ n_label[Len(n_label)] # "/"
              /\ \A i \in 1..(Len(n_label) - 1) : ~(n_label[i] = "/" /\ n_label[i + 1] = "/")
        /\ AllIn(n_path, {"/"}) => n_label = <<"/">>

C8_Witness ==
    /\ n_pc = "once"
    /\ n_path = <<"/", "/", "/">>
    /\ n_label = <<"/">>

\* ------------------------------------------------------------------------
\* Vocabulary of the properties of the middleware and the registry
\* ------------------------------------------------------------------------
Arrived(r) == pc[r] # "idle"
Finished(r) == pc[r] \in {"completed", "failed"}
Label(r) == <<ctx[r].method, ctx[r].endpoint>>
WithLabel(k) == { r \in Reqs : Arrived(r) /\ Label(r) = k }

\* normalize_endpoint of each raw path a client may send
NormalizedPath == [p \in { inp.path : inp \in RequestInputs } |-> normalize_endpoint(p)]
\* the labels that have a segment accepted by one of the two parses
HasIdSegment ==
    [e \in { NormalizedPath[p] : p \in DOMAIN NormalizedPath } |->
        \E k \in 1..Len(Segments(e)) : IsU64Text(Segments(e)[k]) \/ IsUuidText(Segments(e)[k])]
\* the labels that have a segment made of decimal digits only, or a canonical UUID
HasNumberSegment ==
    [e \in { NormalizedPath[p] : p \in DOMAIN NormalizedPath } |->
        \E k \in 1..Len(Segments(e)) :
            \/ Len(Segments(e)[k]) > 0 /\ AllIn(Segments(e)[k], Digits)
            \/ IsCanonicalUuid(Segments(e)[k])]

StatusText == (200 :> <<"2", "0", "0">>) @@ (404 :> <<"4", "0", "4">>) @@ (500 :> <<"5", "0", "0">>)
\* the label set (method, normalized endpoint, status) of a returned request
ResultLabels(r) ==
    <<ctx[r].method, NormalizedPath[ctx[r].path],
      StatusText[IF result[r].kind = "ok" THEN result[r].status ELSE 500]>>

\* positions in the history of r where metric m was changed
Updates(r, m) == { i \in 1..Len(muts[r]) : muts[r][i].metric = m }
GaugeUpdate(r, i, d) ==
    muts[r][i] = [metric |-> "gauge",
                  changes |-> {[key |-> <<ctx[r].method, NormalizedPath[ctx[r].path]>>,
                                delta |-> d]}]

\* C1: the in-flight gauge of a (method, endpoint) pair is never negative,
\* and it is 0 whenever every request received for that pair has completed
\* or failed, whatever the interleaving.
C1_InFlightNonNegativeAndDrains ==
    \A k \in DOMAIN gauge :
        /\ gauge[k] >= 0
        /\ (\A r \in WithLabel(k) : Finished(r)) => gauge[k] = 0

C1_Witness ==
    \E k \in DOMAIN gauge :
        /\ Cardinality(WithLabel(k)) >= 2
        /\ \A r \in WithLabel(k) : Finished(r)
        /\ \E r \in WithLabel(k) : pc[r] = "failed"
        /\ gauge[k] = 0

\* C2: every request on which the +1 was performed has its -1 on every exit
\* path: once the request is over (response, error, or its future dropped),
\* the decrement of its pair has been applied.
C2_DecrementOnEveryExit ==
    \A r \in Reqs :
        pc[r] \in {"completed", "failed", "dropped"} =>
            \E i \in Updates(r, "gauge") : GaugeUpdate(r, i, -1)

\* C3: a request whose handler returned has exactly one counter increment and
\* one histogram observation, both labelled (method, normalize_endpoint(raw
\* path), status), and never more than one of each; after a single
\* GET /api/users/123 answered 200 the counter of
\* (GET, /api/users/{id}, 200) is 1 and the gauge of (GET, /api/users/{id}) is 0.
C3_OneCounterOneObservation ==
    /\ \A r \in Reqs :
         /\ Cardinality(Updates(r, "counter")) <= 1
         /\ Cardinality(Updates(r, "histogram")) <= 1
         /\ Finished(r) =>
              /\ \E i \in Updates(r, "counter") :
                   muts[r][i].changes = {[key |-> ResultLabels(r), delta |-> 1]}
              /\ \E i \in Updates(r, "histogram") :
                   muts[r][i].changes =
                       {[key |-> ResultLabels(r), delta |-> 1, sum |-> elapsed[r]]}
    /\ (/\ pc[1] = "completed"
        /\ \A r \in Reqs \ {1} : pc[r] = "idle"
        /\ ctx[1].method = "GET" /\ ctx[1].path = PathUsers123
        /\ result[1].status = 200)
       => /\ counter = (<<"GET", LabelUsersId, <<"2", "0", "0">>>> :> 1)
          /\ gauge = (<<"GET", LabelUsersId>> :> 0)

C3_Witness ==
    /\ pc[1] = "completed"
    /\ \A r \in Reqs \ {1} : pc[r] = "idle"
    /\ ctx[1].method = "GET" /\ ctx[1].path = PathUsers123
    /\ result[1].status = 200
    /\ histogram[<<"GET", LabelUsersId, <<"2", "0", "0">>>>].count = 1

\* C4: when the handler returns an error, counter and histogram are updated
\* with status "500", the gauge is decremented, and the middleware returns
\* that same error; an error is never turned into a response.
C4_ErrorCountedAndPropagated ==
    \A r \in Reqs :
        /\ pc[r] = "failed" =>
             /\ result[r].kind = "err"
             /\ ret[r] = [kind |-> "err", err |-> result[r].err]
             /\ \E i \in Updates(r, "counter") :
                  muts[r][i].changes =
                      {[key |-> <<ctx[r].method, ctx[r].endpoint, <<"5", "0", "0">>>>, delta |-> 1]}
             /\ \E i \in Updates(r, "histogram") :
                  muts[r][i].changes =
                      {[key |-> <<ctx[r].method, ctx[r].endpoint, <<"5", "0", "0">>>>,
                        delta |-> 1, sum |-> elapsed[r]]}
             /\ \E i \in Updates(r, "gauge") : GaugeUpdate(r, i, -1)
        /\ (result[r].kind = "err" /\ pc[r] \in {"completed", "failed"}) =>
             /\ pc[r] = "failed"
             /\ ret[r].kind = "err"

C4_Witness ==
    \E r \in Reqs :
        /\ pc[r] = "failed"
        /\ ret[r] = [kind |-> "err", err |-> "E1"]
        /\ <<ctx[r].method, ctx[r].endpoint, <<"5", "0", "0">>>> \in DOMAIN counter

\* C5: a request that completed or failed has exactly two updates of the
\* in-flight gauge, a +1 and then a -1, both on its own
\* (method, normalized endpoint) pair.
C5_OneStartOneFinish ==
    \A r \in Reqs :
        Finished(r) =>
            \E i, j \in 1..Len(muts[r]) :
                /\ Updates(r, "gauge") = {i, j}
                /\ i < j
                /\ GaugeUpdate(r, i, 1)
                /\ GaugeUpdate(r, j, -1)

C5_Witness ==
    \E r \in Reqs :
        /\ Finished(r)
        /\ ctx[r].path = PathUsers42
        /\ \E q \in Reqs \ {r} : pc[q] = "track_counter" /\ Label(q) = Label(r)

\* endpoint label of every series of the registry
EndpointLabels ==
    { k[2] : k \in DOMAIN gauge \cup DOMAIN counter \cup DOMAIN histogram }
ReceivedPaths == { ctx[r].path : r \in { q \in Reqs : Arrived(q) } }

\* C9 as stated: every endpoint label is the normalize_endpoint image of a
\* received raw path, and no label has a segment that is an unsigned integer
\* or a UUID.
C9_AsStated ==
    \A e \in EndpointLabels :
        /\ \E p \in ReceivedPaths : e = NormalizedPath[p]
        /\ ~HasNumberSegment[e]

\* C9 amended: every endpoint label is the normalize_endpoint image of a
\* received raw path, and no label has a segment that str::parse::<u64> or
\* Uuid::parse_str accepts; a decimal segment above 2^64 - 1 stays in the
\* label.
C9_LabelsAreNormalized ==
    \A e \in EndpointLabels :
        /\ \E p \in ReceivedPaths : e = NormalizedPath[p]
        /\ ~HasIdSegment[e]

C9_Witness ==
    /\ LabelUsersId \in EndpointLabels
    /\ PathUsersBig \in EndpointLabels
    /\ PathUsers123 \in ReceivedPaths

\* C10 as stated: no step of a request for GET /metrics, from its arrival to
\* its response, changes a series of the registry.
C10_AsStated ==
    [][\A r \in Reqs : (is_scrape(r)' /\ pc'[r] # pc[r]) => UNCHANGED registry]_vars

\* C10 amended: metrics_handler only reads: the step in which it gathers and
\* encodes the snapshot leaves every series unchanged. The request for
\* GET /metrics itself passes through the middleware like any other, which
\* updates the gauge, counter and histogram series of endpoint /metrics.
C10_HandlerOnlyReads ==
    [][\A r \in Reqs :
          (is_scrape(r) /\ pc[r] = "in_flight" /\ pc'[r] = "track_gauge")
          => UNCHANGED registry]_vars

C10_Witness ==
    \E r \in Reqs :
        /\ is_scrape(r)
        /\ pc[r] = "track_gauge"
        /\ result[r].status = 200
        /\ result[r].body[3].total >= 1
        /\ gauge[Label(r)] = 1

\* ------------------------------------------------------------------------
\* Concrete cases
\* ------------------------------------------------------------------------
NormExamples ==
    /\ normalize_endpoint(PathUsers123) = LabelUsersId
    /\ normalize_endpoint(<<"/", "u", "/">> \o UuidHyphenated) = <<"/", "u", "/">> \o IdPlaceholder
    /\ normalize_endpoint(<<"/", "/", "/">>) = <<"/">>
    /\ normalize_endpoint(<<>>) = <<"/">>
    /\ normalize_endpoint(<<"/", "1", "2", "a">>) = <<"/", "1", "2", "a">>
    /\ normalize_endpoint(PathUsersBig) = PathUsersBig
    /\ normalize_endpoint(<<"/">> \o U64MaxDigits) = <<"/">> \o IdPlaceholder
    /\ normalize_endpoint(<<"/">> \o UuidSimple) = <<"/">> \o IdPlaceholder
    /\ normalize_endpoint(<<"/">> \o UuidBadHex) = <<"/">> \o UuidBadHex
    /\ normalize_endpoint(<<"/", "+", "1">>) = <<"/">> \o IdPlaceholder
    /\ normalize_endpoint(<<"/", "+">>) = <<"/", "+">>
    /\ normalize_endpoint(<<"a", "/", "/", "b", "/">>) = <<"/", "a", "/", "b">>
\* ------------------------------------------------------------------------
\* Properties of the exposition handler
\* ------------------------------------------------------------------------
\* C11: the step of metrics_handler answers either 200 with the encoder's
\* content type and the complete encoding of the snapshot it gathered, or,
\* when encoding failed, 500 with the failure reason in the body; a 200 never
\* carries a partially written buffer.
C11_CompleteBodyOrError ==
    [][\A r \in Reqs :
          (is_scrape(r) /\ pc[r] = "in_flight" /\ pc'[r] = "track_gauge") =>
             \/ /\ result'[r].status = 200
                /\ result'[r].content_type = TEXT_FORMAT
                /\ result'[r].body =
                     << [family |-> "http_request_duration_seconds",
                         total |-> Sum([k \in DOMAIN histogram |-> histogram[k].count])],
                        [family |-> "http_requests_in_flight", total |-> Sum(gauge)],
                        [family |-> "http_requests_total", total |-> Sum(counter)] >>
             \/ /\ result'[r].status = 500
                /\ Len(result'[r].body) = 2
                /\ result'[r].body[1] = "failed to encode metrics: "
                /\ \E k \in 1..3 : result'[r].body[2] = <<"encode error at family", k>>]_vars

C11_Witness ==
    \E r, q \in Reqs :
        /\ is_scrape(r) /\ pc[r] = "track_gauge" /\ result[r].status = 500
        /\ is_scrape(q) /\ Finished(q) /\ result[q].status = 200
        /\ result[q].body[2].total = 2


\* ------------------------------------------------------------------------
\* Properties of the request life cycle
\* ------------------------------------------------------------------------
Terminal == {"completed", "failed"}
AfterReturn == {"track_gauge", "track_counter", "track_histogram"}

\* C12: a request goes idle -> created -> in_flight -> (finish-time updates)
\* -> completed | failed. A terminal position is never left (so at most one
\* is reached), it is entered only at the end of the code that follows the
\* handler's return, which is entered only from in_flight; the position is
\* completed exactly for a response and failed exactly for an error; and
\* a request whose handler has returned eventually reaches one of the two.
C12_LifeCycle ==
    /\ [][\A r \in Reqs :
            /\ pc[r] \in Terminal => pc'[r] = pc[r]
            /\ (pc[r] \notin Terminal /\ pc'[r] \in Terminal) =>
                  /\ pc[r] = "track_histogram"
                  /\ pc'[r] = "completed" <=> result[r].kind = "ok"
                  /\ pc'[r] = "failed" <=> result[r].kind = "err"
            /\ (pc[r] \notin AfterReturn /\ pc'[r] \in AfterReturn) =>
                  pc[r] = "in_flight" /\ pc'[r] = "track_gauge"
            /\ (pc[r] # "in_flight" /\ pc'[r] = "in_flight") => pc[r] = "created"
            /\ (pc[r] # "created" /\ pc'[r] = "created") => pc[r] = "idle"]_vars
    /\ \A r \in Reqs :
          (pc[r] = "track_gauge" /\ result[r].kind = "ok") ~> (pc[r] = "completed")
    /\ \A r \in Reqs :
          (pc[r] = "track_gauge" /\ result[r].kind = "err") ~> (pc[r] = "failed")

C12_Witness ==
    \E r, q \in Reqs :
        /\ pc[r] = "completed" /\ result[r].kind = "ok"
        /\ pc[q] = "failed" /\ result[q].kind = "err"


\* C13: the finish-time updates of a request are made in the order counter
\* increment, histogram observation, in-flight decrement: wherever the -1 of
\* a request has been applied, its counter increment and its observation
\* were applied before it, so no snapshot of the registry shows a request
\* that has left the gauge and is not counted in http_requests_total.
C13_CounterThenHistogramThenGauge ==
    \A r \in Reqs :
        \A i \in Updates(r, "gauge") :
            GaugeUpdate(r, i, -1) =>
                /\ \E j \in Updates(r, "counter") : j < i
                /\ \E j \in Updates(r, "histogram") : j < i


\* requests of pair k that have started and whose -1 is still to come
InFlight(k) == { r \in WithLabel(k) : pc[r] \in {"created", "in_flight", "track_gauge"} }

\* C14: in every reachable state the in-flight gauge of each
\* (method, endpoint) pair equals the number of requests of that pair that
\* have started and have not yet finished; no +1 or -1 is lost, so two
\* requests started together both count.
C14_GaugeCountsInFlight ==
    \A k \in DOMAIN gauge : gauge[k] = Cardinality(InFlight(k))


\* C15: every life-cycle event emitted for a request ("Request started",
\* "Request completed", "Request failed") is emitted inside the request's
\* span, and so carries its request id, method and path.
C15_EveryEventInSpan ==
    \A r \in Reqs :
        \A i \in 1..Len(events[r]) : events[r][i].in_span


IsStarted(e) == e.level = "INFO" /\ e.msg = "Request started"
IsCompleted(e) == e.level = "INFO" /\ e.msg = "Request completed"
IsFailed(e) == e.level = "WARN" /\ e.msg = "Request failed"

\* C16: for each request the started event and the gauge +1 come first,
\* then the handler is invoked, then the three finish-time updates are made,
\* then exactly one terminal event is emitted: "Request completed" for a
\* response, "Request failed" at warning level for an error. No terminal
\* event exists before the handler has returned.
C16_OrderOfEffects ==
    \A r \in Reqs :
        LET n == Len(events[r])
            m == Len(muts[r])
        IN  /\ pc[r] = "idle" => n = 0 /\ m = 0
            /\ pc[r] \in {"created", "in_flight", "dropped"} =>
                  n = 1 /\ m = 1 /\ result[r] = NoResult
            /\ pc[r] = "track_gauge" => n = 1 /\ m = 1 /\ result[r] # NoResult
            /\ pc[r] = "track_counter" => n = 1 /\ m = 2
            /\ pc[r] = "track_histogram" => n = 1 /\ m = 3
            /\ Finished(r) => n = 2 /\ m = 4
            /\ n >= 1 => IsStarted(events[r][1])
            /\ m >= 1 => GaugeUpdate(r, 1, 1)
            /\ n >= 2 =>
                  /\ result[r] # NoResult
                  /\ Updates(r, "counter") # {} /\ Updates(r, "histogram") # {}
                  /\ \E i \in 2..m : GaugeUpdate(r, i, -1)
                  /\ result[r].kind = "ok" => IsCompleted(events[r][2])
                  /\ result[r].kind = "err" => IsFailed(events[r][2])

C16_Witness ==
    \E r, q \in Reqs :
        /\ pc[r] = "failed" /\ Len(events[r]) = 2 /\ IsFailed(events[r][2])
        /\ pc[q] = "track_histogram" /\ Len(events[q]) = 1 /\ result[q].kind = "ok"


\* ------------------------------------------------------------------------
\* Properties of the registry
\* ------------------------------------------------------------------------
\* C17: registry mutation is append-or-update only. Across every step each
\* series of the three vectors still exists afterwards, each
\* http_requests_total value is non-decreasing, and each histogram series'
\* count, sum and bucket counts are non-decreasing.
C17_AppendOrUpdateOnly ==
    [][/\ DOMAIN gauge \subseteq DOMAIN gauge'
       /\ DOMAIN counter \subseteq DOMAIN counter'
       /\ DOMAIN histogram \subseteq DOMAIN histogram'
       /\ \A k \in DOMAIN counter : counter'[k] >= counter[k]
       /\ \A k \in DOMAIN histogram :
              /\ histogram'[k].count >= histogram[k].count
              /\ histogram'[k].sum >= histogram[k].sum
              /\ \A b \in 1..InfBucket :
                     histogram'[k].buckets[b] >= histogram[k].buckets[b]]_vars

C17_Witness ==
    /\ \A r \in Reqs : Finished(r)
    /\ Cardinality(DOMAIN counter) = 2
    /\ Cardinality(DOMAIN histogram) = 2
    /\ \E k \in DOMAIN counter : k[3] = <<"5", "0", "0">>


\* the series a vector holds for the labels (GET, /api/users/{id}, 200)
SeriesOf(vec) ==
    IF <<"GET", LabelUsersId, <<"2", "0", "0">>>> \in DOMAIN vec
    THEN vec[<<"GET", LabelUsersId, <<"2", "0", "0">>>>]
    ELSE [count |-> 0, sum |-> 0, buckets |-> [b \in 1..11 |-> 0]]
\* the configured bounds, in microseconds: 0.005 s ... 5.0 s
BoundsMicros == {5000, 10000, 25000, 50000, 100000, 250000, 500000, 1000000, 2500000, 5000000}
\* position of the smallest bound >= v among the ascending bounds; 11 is +Inf
ExpectedBucket(v) == Cardinality({ b \in BoundsMicros : b < v }) + 1

\* C18: each observation is recorded against the ascending bounds 0.005,
\* 0.01, 0.025, 0.05, 0.1, 0.25, 0.5, 1.0, 2.5, 5.0 s: the bucket with the
\* smallest bound >= the value, or +Inf above 5.0 s, grows by one and no
\* other bucket changes; the sum grows by the value and the count by 1.
C18_ObservationLandsInBucket ==
    [][h_count' = h_count + 1 =>
          LET old == SeriesOf(h_vec)
              new == SeriesOf(h_vec')
              v == h_value'
          IN  /\ DOMAIN new.buckets = 1..11
              /\ \A b \in 1..11 :
                    new.buckets[b] = old.buckets[b] + (IF b = ExpectedBucket(v) THEN 1 ELSE 0)
              /\ v > 5000000 <=> ExpectedBucket(v) = 11
              /\ new.sum = old.sum + v
              /\ new.count = old.count + 1
              /\ DOMAIN h_vec' = {<<"GET", LabelUsersId, <<"2", "0", "0">>>>}]_vars

C18_Witness ==
    /\ h_count = 3
    /\ SeriesOf(h_vec).buckets[1] = 1
    /\ SeriesOf(h_vec).buckets[10] = 1
    /\ SeriesOf(h_vec).buckets[11] = 1
    /\ SeriesOf(h_vec).sum = 5000 + 5000000 + 5000001
    /\ SeriesOf(h_vec).count = 3


\* ------------------------------------------------------------------------
\* Algebraic properties of the normalizer
\* ------------------------------------------------------------------------
\* C19: normalize_endpoint is idempotent: normalizing a label gives the
\* label back, for every path.
C19_Idempotent ==
    n_pc = "twice" => n_again = n_label

C19_Witness ==
    /\ n_pc = "twice"
    /\ n_path = <<"1", "/", "1">>
    /\ n_label = <<"/">> \o IdPlaceholder \o <<"/">> \o IdPlaceholder
    /\ n_again = n_label

====
